---- MODULE Spec2Model ----
(***************************************************************************)
(* Model of the outbreak risk assessment service (app.py, train_model.py). *)
(*                                                                         *)
(* Conventions                                                             *)
(*  - a Python str is a tuple of one-character strings, so that strip()    *)
(*    and lower() are computed and not assumed;                            *)
(*  - a Python float read from a request is an integer number of tenths    *)
(*    (50.0 is 500, 2.5 is 25), so that int() truncates;                   *)
(*  - the oracle probability is k / NEstimators for an integer k, which is *)
(*    what a forest of NEstimators trees with pure leaves returns;         *)
(*  - None is Null and an absent key is Missing: one-element tuples whose   *)
(*    element is no character, so that they differ from every str.         *)
(***************************************************************************)
EXTENDS Integers, Sequences, FiniteSets, TLC

VARIABLES
  modelExists,  \* os.path.exists(MODEL_PATH)
  store,        \* the rows of table prediction, in id order
  resp,         \* the response of the request answered last
  inflight,     \* requests whose handler has not yet committed
  committed,    \* history: the user whose request made each commit
  args,         \* the arguments of a function applied on its own
  ret           \* its result

vars == <<modelExists, store, resp, inflight, committed, args, ret>>

Null == <<"None">>
Missing == <<"<missing>">>
\* None in an int-valued slot (no AQI is negative)
IntNone == 0 - 1

\* ---------------------------------------------------------------- bounds
MaxStore == 2
MaxInflight == 2

\* n_estimators of the RandomForestClassifier
NEstimators == 100

Users == {1, 2}

\* ---------------------------------------------------------------- strings
UpperChars == <<"A","B","C","D","E","F","G","H","I","J","K","L","M",
                "N","O","P","Q","R","S","T","U","V","W","X","Y","Z">>
LowerChars == <<"a","b","c","d","e","f","g","h","i","j","k","l","m",
                "n","o","p","q","r","s","t","u","v","w","x","y","z">>

IsSpace(c) == c \in {" ", "\t", "\n"}

\* the lower-case letter of every upper-case letter
LowerTable ==
  [c \in {UpperChars[i] : i \in 1..26} |->
     LowerChars[CHOOSE i \in 1..26 : UpperChars[i] = c]]

LowerChar(c) == IF c \in DOMAIN LowerTable THEN LowerTable[c] ELSE c

\* str.lower()
PyLower(s) == [i \in 1..Len(s) |-> LowerChar(s[i])]

RECURSIVE LStrip(_)
LStrip(s) == IF s # <<>> /\ IsSpace(Head(s)) THEN LStrip(Tail(s)) ELSE s

RECURSIVE RStrip(_)
RStrip(s) ==
  IF s # <<>> /\ IsSpace(s[Len(s)]) THEN RStrip(SubSeq(s, 1, Len(s) - 1)) ELSE s

\* str.strip()
PyStrip(s) == RStrip(LStrip(s))

\* Python truthiness of an optional str: None and "" are falsy
Truthy(s) == s # Null /\ s # <<>>

\* x or default
PyOr(s, default) == IF Truthy(s) THEN s ELSE default

STR_unknown == <<"u","n","k","n","o","w","n">>
STR_Unknown == <<"U","n","k","n","o","w","n">>
STR_surat == <<"s","u","r","a","t">>
STR_ahmedabad == <<"a","h","m","e","d","a","b","a","d">>
STR_mumbai == <<"m","u","m","b","a","i">>
STR_delhi == <<"d","e","l","h","i">>
STR_pune == <<"p","u","n","e">>

\* ---------------------------------------------------------------- numbers
\* round() to the nearest integer of num/den (den > 0), ties to even
RoundHalfEven(num, den) ==
  LET f == num \div den
      r == num - f * den
  IN  IF 2 * r > den \/ (2 * r = den /\ f % 2 = 1) THEN f + 1 ELSE f

\* int(x) of a float held in tenths: truncation toward zero
PyInt(x) == IF x >= 0 THEN x \div 10 ELSE -((-x) \div 10)

Max(a, b) == IF a >= b THEN a ELSE b

\* ---------------------------------------------------------------- utils
\* (mutant) the first boundary is taken with <=
compute_risk_level_le(k) ==
  IF 10 * k <= 3 * NEstimators THEN "Low"
  ELSE IF 10 * k < 7 * NEstimators THEN "Medium"
  ELSE "High"

\* compute_risk_level(probability) for probability = k / NEstimators:
\* k / NEstimators < 0.3 is 10 k < 3 NEstimators
compute_risk_level(k) ==
  IF 10 * k < 3 * NEstimators THEN "Low"
  ELSE IF 10 * k < 7 * NEstimators THEN "Medium"
  ELSE "High"

\* dict.get(key, default) on a dict held as a sequence of <<key, value>>
DictGet(d, key, default) ==
  IF \E i \in 1..Len(d) : d[i][1] = key
  THEN d[CHOOSE i \in 1..Len(d) : d[i][1] = key][2]
  ELSE default

\* (mutant) the key is not normalized
region_key_raw(region) == PyOr(region, STR_unknown)

\* region_key = (region or "unknown").strip().lower()
region_key(region) == PyLower(PyStrip(PyOr(region, STR_unknown)))

sample_data ==
  << <<STR_surat, 130>>, <<STR_ahmedabad, 160>>, <<STR_mumbai, 140>>,
     <<STR_delhi, 220>>, <<STR_pune, 110>> >>

aqi_category_of(aqi) ==
  IF aqi <= 50 THEN "Good"
  ELSE IF aqi <= 100 THEN "Satisfactory"
  ELSE IF aqi <= 200 THEN "Moderate"
  ELSE IF aqi <= 300 THEN "Poor"
  ELSE IF aqi <= 400 THEN "Very Poor"
  ELSE "Severe"

\* get_region_aqi(region) -> <<aqi, category>>
get_region_aqi(region) ==
  LET aqi == DictGet(sample_data, region_key(region), 90)
  IN  <<aqi, aqi_category_of(aqi)>>

hospitals_map ==
  << <<STR_surat,
       << [name |-> "New Civil Hospital, Surat", phone |-> "+91-261-XYZ-0001",
           address |-> "Ring Road, Surat"],
          [name |-> "SMIMER Hospital", phone |-> "+91-261-XYZ-0002",
           address |-> "Dumas Road, Surat"] >> >>,
     <<STR_ahmedabad,
       << [name |-> "Civil Hospital, Ahmedabad", phone |-> "+91-79-XYZ-0001",
           address |-> "Asarwa, Ahmedabad"],
          [name |-> "Sardar Vallabhbhai Patel Hospital",
           phone |-> "+91-79-XYZ-0002",
           address |-> "Ellisbridge, Ahmedabad"] >> >> >>

\* get_hospitals_for_region(region) -> list of hospitals
get_hospitals_for_region(region) ==
  DictGet(hospitals_map, region_key(region), <<>>)

\* ---------------------------------------------------------------- recommendations
\* a rate (count / pop) * 10000 is kept exact as the fraction <<count, pop>>
\* in units of 10000, pop > 0
Rate(count, pop) == <<count, pop>>

RateGT(a, b) == a[1] * b[2] > b[1] * a[2]

\* max(rates, key=rates.get): the first key, in insertion order, whose value
\* no later key exceeds
RECURSIVE MaxKeyFrom(_, _, _)
MaxKeyFrom(rates, i, best) ==
  IF i > Len(rates) THEN rates[best][1]
  ELSE IF RateGT(rates[i][2], rates[best][2])
       THEN MaxKeyFrom(rates, i + 1, i)
       ELSE MaxKeyFrom(rates, i + 1, best)

\* (mutant) the last of the greatest keys is kept
RECURSIVE MaxKeyLastFrom(_, _, _)
MaxKeyLastFrom(rates, i, best) ==
  IF i > Len(rates) THEN rates[best][1]
  ELSE IF ~RateGT(rates[best][2], rates[i][2])
       THEN MaxKeyLastFrom(rates, i + 1, i)
       ELSE MaxKeyLastFrom(rates, i + 1, best)

PyMaxKeyLast(rates) == MaxKeyLastFrom(rates, 2, 1)

PyMaxKey(rates) == MaxKeyFrom(rates, 2, 1)

\* rates dict of generate_recommendations; features are floats in tenths
symptom_rates(features) ==
  LET pop == Max(features.region_population, 10)
  IN  << <<"Fever", Rate(features.fever_cases, pop)>>,
         <<"Cough", Rate(features.cough_cases, pop)>>,
         <<"Diarrhea", Rate(features.diarrhea_cases, pop)>> >>

top_symptom(features) == PyMaxKey(symptom_rates(features))

\* a suggestion is the message's name and the values formatted into it
Item(id, params) == [id |-> id, params |-> params]

\* (mutant) Medium gives the surveillance item only
risk_items_short(risk_level, region) ==
  IF risk_level = "High"
  THEN << Item("alert_authorities", <<region>>),
          Item("escalate_testing", <<>>) >>
  ELSE IF risk_level = "Medium"
  THEN << Item("enhanced_surveillance", <<region>>) >>
  ELSE << Item("routine_surveillance", <<region>>) >>

risk_items(risk_level, region) ==
  IF risk_level = "High"
  THEN << Item("alert_authorities", <<region>>),
          Item("escalate_testing", <<>>) >>
  ELSE IF risk_level = "Medium"
  THEN << Item("enhanced_surveillance", <<region>>),
          Item("review_hospital_readiness", <<>>) >>
  ELSE << Item("routine_surveillance", <<region>>) >>

symptom_items(top) ==
  IF top = "Fever" THEN << Item("fever_clusters", <<>>) >>
  ELSE IF top = "Cough" THEN << Item("respiratory_hygiene", <<>>) >>
  ELSE << Item("water_food_safety", <<>>) >>

aqi_items(region, aqi_value, aqi_category) ==
  IF aqi_value # IntNone
  THEN IF aqi_value > 200
       THEN << Item("aqi_masks_outdoors", <<region, aqi_category, aqi_value>>) >>
       ELSE IF aqi_value > 100
       THEN << Item("aqi_public_advisory", <<region, aqi_category, aqi_value>>) >>
       ELSE << Item("aqi_maintain_controls", <<region, aqi_category, aqi_value>>) >>
  ELSE <<>>

hospital_items(risk_level, hospital_count) ==
  IF hospital_count = 0
  THEN << Item("no_mapped_hospitals", <<>>) >>
  ELSE IF hospital_count <= 2 /\ risk_level \in {"Medium", "High"}
  THEN << Item("limited_hospital_coverage", <<hospital_count>>) >>
  ELSE << Item("coordinate_with_hospitals", <<>>) >>

data_quality_items == << Item("standardize_reporting", <<>>) >>

generate_recommendations(risk_level, region, features, aqi_value, aqi_category, hospital_count) ==
  risk_items(risk_level, region)
    \o symptom_items(top_symptom(features))
    \o aqi_items(region, aqi_value, aqi_category)
    \o hospital_items(risk_level, hospital_count)
    \o data_quality_items

\* ---------------------------------------------------------------- requests
\* a request field: Num(x) is a JSON number or a numeric text (x in tenths),
\* Text a text float() does not parse, Null a JSON null, Missing no key
Num(x) == <<"num", x>>
Text == <<"str">>

\* float(data[key]): the exception it raises, or "none"
FloatError(v) ==
  IF v = Missing THEN "KeyError"
  ELSE IF v = Null THEN "TypeError"
  ELSE IF v[1] = "str" THEN "ValueError"
  ELSE "none"

\* the four conversions run in this order; the first exception wins
ParseError(data) ==
  LET es == << FloatError(data.fever_cases), FloatError(data.cough_cases),
               FloatError(data.diarrhea_cases),
               FloatError(data.region_population) >>
  IN  IF \E i \in 1..4 : es[i] # "none"
      THEN es[CHOOSE i \in 1..4 : es[i] # "none" /\ \A j \in 1..(i-1) : es[j] = "none"]
      ELSE "none"

\* the floats of a request whose four conversions succeeded
features_of(data) ==
  [fever_cases |-> data.fever_cases[2],
   cough_cases |-> data.cough_cases[2],
   diarrhea_cases |-> data.diarrhea_cases[2],
   region_population |-> data.region_population[2]]

\* (mutant) the flag is taken with >=, so that exactly 0.5 is a positive call
prediction_of_ge(k) == IF 2 * k >= NEstimators THEN 1 ELSE 0

\* int(proba > 0.5) for proba = k / NEstimators
prediction_of(k) == IF 2 * k > NEstimators THEN 1 ELSE 0

\* round(float(proba) * 100, 2), in hundredths of a percent
probability_of(k) == RoundHalfEven(k * 10000, NEstimators)

\* Prediction(...): the row before the database gives it its id
\* (timestamp, the wall clock at insertion, is left out)
prediction_row(user, region, features, k) ==
  [user_id |-> user,
   region |-> region,
   fever_cases |-> PyInt(features.fever_cases),
   cough_cases |-> PyInt(features.cough_cases),
   diarrhea_cases |-> PyInt(features.diarrhea_cases),
   region_population |-> PyInt(features.region_population),
   prediction |-> prediction_of(k),
   probability |-> probability_of(k),
   risk_level |-> compute_risk_level(k),
   aqi_value |-> get_region_aqi(region)[1],
   aqi_category |-> get_region_aqi(region)[2]]

\* the body both routes compute once the inputs are floats
assessment(region, features, k) ==
  LET risk_level == compute_risk_level(k)
      aqi == get_region_aqi(region)
      hospitals == get_hospitals_for_region(region)
  IN  [prediction |-> prediction_of(k),
       probability |-> probability_of(k),
       risk_level |-> risk_level,
       aqi_value |-> aqi[1],
       aqi_category |-> aqi[2],
       hospitals |-> hospitals,
       suggestions |-> generate_recommendations(risk_level, region, features,
                                                aqi[1], aqi[2], Len(hospitals))]

NoRow == <<>>
NoBody == <<>>

Response(route, user, data, status, kind, body, row) ==
  [route |-> route, user |-> user, data |-> data, status |-> status,
   kind |-> kind, body |-> body, row |-> row]

\* data.get("region", "Unknown")
api_region(data) == IF data.region = Missing THEN STR_Unknown ELSE data.region

\* (mutant) the request is parsed before the model is looked for
api_predict_parses_first(user, data, modelOk, k) ==
  IF ParseError(data) \in {"KeyError", "ValueError"}
  THEN Response("api_predict", user, data, 400, "validation_error", NoBody, NoRow)
  ELSE IF ~modelOk
  THEN Response("api_predict", user, data, 500, "model_unavailable", NoBody, NoRow)
  ELSE IF ParseError(data) # "none"
  THEN Response("api_predict", user, data, 500, "server_error", NoBody, NoRow)
  ELSE Response("api_predict", user, data, 200, "ok",
                assessment(api_region(data), features_of(data), k),
                prediction_row(user, api_region(data), features_of(data), k))

\* api_predict: the response and the row it commits (NoRow when none);
\* modelOk is load_model() is not None, k the oracle's answer
api_predict(user, data, modelOk, k) ==
  IF ~modelOk
  THEN Response("api_predict", user, data, 500, "model_unavailable", NoBody, NoRow)
  ELSE IF ParseError(data) \in {"KeyError", "ValueError"}
  THEN Response("api_predict", user, data, 400, "validation_error", NoBody, NoRow)
  ELSE IF ParseError(data) # "none"
  THEN Response("api_predict", user, data, 500, "server_error", NoBody, NoRow)
  ELSE Response("api_predict", user, data, 200, "ok",
                assessment(api_region(data), features_of(data), k),
                prediction_row(user, api_region(data), features_of(data), k))

\* request.form.get("region", "").strip() or "Unknown"
form_region(data) ==
  PyOr(PyStrip(IF data.region = Missing THEN <<>> ELSE data.region), STR_Unknown)

\* predict, POST: every exception of the try block is answered with 400
predict(user, data, modelOk, k) ==
  IF ~modelOk
  THEN Response("predict", user, data, 500, "model_unavailable", NoBody, NoRow)
  ELSE IF ParseError(data) # "none"
  THEN Response("predict", user, data, 400, "validation_error", NoBody, NoRow)
  ELSE Response("predict", user, data, 200, "ok",
                assessment(form_region(data), features_of(data), k),
                prediction_row(user, form_region(data), features_of(data), k))

\* predict, GET: the empty form
predict_get(user, modelOk) ==
  IF ~modelOk
  THEN Response("predict_get", user, NoBody, 500, "model_unavailable", NoBody, NoRow)
  ELSE Response("predict_get", user, NoBody, 200, "form", NoBody, NoRow)

\* (mutant) the insert replaces the newest row
db_insert_replaces(rows, row) ==
  IF rows = <<>> THEN <<row @@ [id |-> 1]>>
  ELSE [rows EXCEPT ![Len(rows)] = row @@ [id |-> Len(rows)]]

\* db.session.add(pred_row); db.session.commit(): the primary key is the
\* next integer, rows are never deleted
db_insert(rows, row) == Append(rows, row @@ [id |-> Len(rows) + 1])

\* ---------------------------------------------------------------- dashboard
\* (mutant) the query is not filtered by user
predictions_of_all(rows, user) == rows

\* Prediction.query.filter_by(user_id=user).all()
predictions_of(rows, user) == SelectSeq(rows, LAMBDA p : p.user_id = user)

\* (mutant) the region is taken as stored
label_of_stored(p) == p.region

\* region = p.region or "Unknown"
label_of(p) == PyOr(p.region, STR_Unknown)

\* the for loop over predictions, by its result: region_stats, a dict in
\* insertion order, is a sequence of entries [region, Low, Medium, High], one
\* for each label in the order in which the labels first occur, counting the
\* rows of that label at each risk level
region_stats_of(predictions) ==
  LET n == Len(predictions)
      labs == [i \in 1..n |-> label_of(predictions[i])]
      labelset == {labs[i] : i \in 1..n}
      first == [l \in labelset |->
                  CHOOSE i \in 1..n :
                    labs[i] = l /\ \A j \in 1..(i - 1) : labs[j] # l]
      nth(k) == CHOOSE l \in labelset :
                  Cardinality({m \in labelset : first[m] < first[l]}) = k - 1
      count(l, level) ==
        Cardinality({i \in 1..n : labs[i] = l /\ predictions[i].risk_level = level})
  IN  [k \in 1..Cardinality(labelset) |->
         [region |-> nth(k),
          Low |-> count(nth(k), "Low"),
          Medium |-> count(nth(k), "Medium"),
          High |-> count(nth(k), "High")]]

\* round((high / total) * 100, 1) if total > 0 else 0.0, in tenths of a percent
high_percent_of(high, total) ==
  IF total > 0 THEN RoundHalfEven(1000 * high, total) ELSE 0

summary_of(e) ==
  LET total == e.Low + e.Medium + e.High
  IN  [region |-> e.region,
       total_predictions |-> total,
       high_count |-> e.High,
       high_percent |-> high_percent_of(e.High, total)]

\* (mutant) the key is -x["high_percent"] alone
sort_key_le_percent(a, b) == a.high_percent >= b.high_percent

\* key=lambda x: (-x["high_percent"], -x["total_predictions"]): a before-or-equal b
sort_key_le(a, b) ==
  \/ a.high_percent > b.high_percent
  \/ /\ a.high_percent = b.high_percent
     /\ a.total_predictions >= b.total_predictions

\* list.sort is stable: x goes before the first element whose key is greater
RECURSIVE sort_insert(_, _)
sort_insert(sorted, x) ==
  IF sorted = <<>> THEN <<x>>
  ELSE IF sort_key_le(Head(sorted), x)
       THEN <<Head(sorted)>> \o sort_insert(Tail(sorted), x)
       ELSE <<x>> \o sorted

RECURSIVE sort_loop(_, _, _)
sort_loop(xs, i, sorted) ==
  IF i > Len(xs) THEN sorted
  ELSE sort_loop(xs, i + 1, sort_insert(sorted, xs[i]))

region_summary_sort(xs) == sort_loop(xs, 1, <<>>)

\* order_by(Prediction.id.desc()).limit(20): the ids, newest first
recent_ids(predictions) ==
  LET n == Len(predictions)
      m == IF n < 20 THEN n ELSE 20
  IN  [i \in 1..m |-> predictions[n + 1 - i].id]

\* dashboard: what the template is rendered with
dashboard(rows, user) ==
  LET predictions == predictions_of(rows, user)
      stats == region_stats_of(predictions)
  IN  Response("dashboard", user, NoBody, 200, "dashboard",
        [labels |-> [i \in 1..Len(stats) |-> stats[i].region],
         low_counts |-> [i \in 1..Len(stats) |-> stats[i].Low],
         medium_counts |-> [i \in 1..Len(stats) |-> stats[i].Medium],
         high_counts |-> [i \in 1..Len(stats) |-> stats[i].High],
         region_summary |->
           region_summary_sort([i \in 1..Len(stats) |-> summary_of(stats[i])]),
         recent_predictions |-> recent_ids(predictions)],
        NoRow)

\* ---------------------------------------------------------------- inputs
STR_Surat == <<"S","u","r","a","t">>
STR_Surat_padded == <<" ","S","U","R","A","T"," ">>
STR_Nowhereville == <<"N","o","w","h","e","r","e","v","i","l","l","e">>
STR_Pune == <<"P","u","n","e">>
STR_Delhi == <<"D","e","l","h","i">>
STR_empty == <<>>
STR_blank == <<" ">>

Data(region, fever, cough, diarrhea, population) ==
  [region |-> region, fever_cases |-> fever, cough_cases |-> cough,
   diarrhea_cases |-> diarrhea, region_population |-> population]

\* requests that parse: the Surat observation, and one with no region
\* text, a negative count, a fractional count and a population of 0
GoodData ==
  { Data(STR_Surat, Num(500), Num(100), Num(50), Num(100000)),
    Data(STR_empty, Num(0 - 10), Num(25), Num(200), Num(0)) }

\* requests one conversion of which raises
BadData ==
  { Data(STR_Surat, Num(500), Num(100), Num(50), Missing),
    Data(STR_Surat, Text, Num(100), Num(50), Num(0)),
    Data(STR_Surat, Num(500), Null, Num(50), Num(100000)) }

NumericFields == {"fever_cases", "cough_cases", "diarrhea_cases", "region_population"}

\* a form holds texts only: no field of it is null
IsFormData(d) == d.region # Null /\ \A f \in NumericFields : d[f] # Null

FormData == { d \in GoodData \cup BadData : IsFormData(d) }

\* oracle answers k, for the probability k / NEstimators
Probas == {20, 50, 70}

\* the oracle is asked only when the model is loaded and the request parses
OracleAnswers(modelOk, d, ks) ==
  IF modelOk /\ ParseError(d) = "none" THEN ks ELSE {0}

\* ---------------------------------------------------------------- Spec
NoResp == Response("none", 0, NoBody, 0, "none", NoBody, NoRow)
NoCall == [fn |-> "none"]
NoResult == [done |-> FALSE]

Init ==
  /\ modelExists = FALSE
  /\ store = <<>>
  /\ resp = NoResp
  /\ inflight = <<>>
  /\ committed = <<>>
  /\ args = NoCall
  /\ ret = NoResult

\* train_model.py: joblib.dump(model, MODEL_PATH)
TrainModel ==
  /\ modelExists' = TRUE
  /\ UNCHANGED <<store, resp, inflight, committed, args, ret>>

\* the request would run to its commit
WouldCommit(d) == modelExists /\ ParseError(d) = "none"

\* a handler that answers r and commits r.row when there is one
Handle(r) ==
  /\ resp' = r
  /\ store' = IF r.row # NoRow THEN db_insert(store, r.row) ELSE store
  /\ committed' = IF r.row # NoRow THEN Append(committed, r.user) ELSE committed
  /\ UNCHANGED <<modelExists, inflight, args, ret>>

\* POST /api/predict by a user of U with a body of D, the oracle answering
\* in K, while the table holds fewer than cap rows
ApiPredictWith(U, D, K, cap) ==
  \E u \in U, d \in D :
    /\ WouldCommit(d) => Len(store) < cap
    /\ \E k \in OracleAnswers(modelExists, d, K) :
       \E r \in {api_predict(u, d, modelExists, k)} : Handle(r)

\* POST /predict
PredictWith(U, D, K, cap) ==
  \E u \in U, d \in D :
    /\ WouldCommit(d) => Len(store) < cap
    /\ \E k \in OracleAnswers(modelExists, d, K) :
       \E r \in {predict(u, d, modelExists, k)} : Handle(r)

ApiPredict == ApiPredictWith(Users, GoodData \cup BadData, Probas, MaxStore)

Predict == PredictWith(Users, FormData, Probas, MaxStore)

\* GET /predict
PredictGet == \E u \in Users :
  \E r \in {predict_get(u, modelExists)} : Handle(r)

\* GET /dashboard
Dashboard == \E u \in Users :
  \E r \in {dashboard(store, u)} : Handle(r)

Next == TrainModel \/ ApiPredict \/ Predict \/ PredictGet \/ Dashboard

Spec == Init /\ [][Next]_vars

\* ---------------------------------------------------------------- SpecFirst
\* the first assessment on an empty table with the model trained, for every
\* answer of the oracle and for regions of every kind
FirstRegions ==
  {STR_Surat, STR_Surat_padded, STR_Delhi, STR_Nowhereville, STR_Unknown,
   STR_empty, STR_blank, Null, Missing}

FirstData ==
  { Data(r, Num(500), Num(100), Num(50), Num(100000)) : r \in FirstRegions }
    \cup GoodData \cup BadData

InitFirst ==
  /\ modelExists = TRUE
  /\ store = <<>>
  /\ resp = NoResp
  /\ inflight = <<>>
  /\ committed = <<>>
  /\ args = NoCall
  /\ ret = NoResult

ApiPredictFirst == ApiPredictWith({1}, FirstData, 0..NEstimators, 1)

PredictFirst ==
  PredictWith({1}, {d \in FirstData : IsFormData(d)}, 0..NEstimators, 1)

NextFirst == ApiPredictFirst \/ PredictFirst \/ PredictGet \/ Dashboard

SpecFirst == InitFirst /\ [][NextFirst]_vars

\* ---------------------------------------------------------------- SpecConc
\* handlers of several requests run at once: a handler reads the model
\* file and computes its row, and commits it in a later step
ConcData ==
  { Data(STR_Surat, Num(500), Num(100), Num(50), Num(100000)),
    Data(Null, Num(0), Num(0), Num(0), Num(10)),
    Data(STR_Surat, Num(500), Num(100), Num(50), Missing) }

\* oracle answers of the two outer tiers
ConcProbas == {20, 70}

RemoveAt(seq, i) == SubSeq(seq, 1, i - 1) \o SubSeq(seq, i + 1, Len(seq))

\* the handler up to db.session.add: a request that fails is answered at once
Begin(r) ==
  /\ Len(inflight) < MaxInflight
  /\ r.row # NoRow => Len(store) + Len(inflight) < MaxStore
  /\ IF r.row # NoRow
     THEN inflight' = Append(inflight, r) /\ resp' = resp
     ELSE inflight' = inflight /\ resp' = r
  /\ UNCHANGED <<modelExists, store, committed, args, ret>>

BeginApiPredict ==
  \E u \in Users, d \in ConcData :
  \E k \in OracleAnswers(modelExists, d, ConcProbas) :
  \E r \in {api_predict(u, d, modelExists, k)} : Begin(r)

BeginPredict ==
  \E u \in Users, d \in {x \in ConcData : IsFormData(x)} :
  \E k \in OracleAnswers(modelExists, d, ConcProbas) :
  \E r \in {predict(u, d, modelExists, k)} : Begin(r)

\* db.session.add(pred_row); db.session.commit() of one handler, and its answer
Commit ==
  \E i \in 1..Len(inflight) :
    /\ store' = db_insert(store, inflight[i].row)
    /\ committed' = Append(committed, inflight[i].user)
    /\ resp' = inflight[i]
    /\ inflight' = RemoveAt(inflight, i)
    /\ UNCHANGED <<modelExists, args, ret>>

NextConc == TrainModel \/ BeginApiPredict \/ BeginPredict \/ Commit \/ Dashboard

SpecConc == Init /\ [][NextConc]_vars

\* ---------------------------------------------------------------- SpecTier
\* compute_risk_level applied to two probabilities k / NEstimators
InitTier ==
  /\ modelExists = TRUE
  /\ store = <<>>
  /\ resp = NoResp
  /\ inflight = <<>>
  /\ committed = <<>>
  /\ args \in [fn : {"compute_risk_level"}, p1 : 0..NEstimators, p2 : 0..NEstimators]
  /\ ret = NoResult

CallTier ==
  /\ args.fn = "compute_risk_level"
  /\ ~ret.done
  /\ ret' = [done |-> TRUE, t1 |-> compute_risk_level(args.p1),
             t2 |-> compute_risk_level(args.p2)]
  /\ UNCHANGED <<modelExists, store, resp, inflight, committed, args>>

SpecTier == InitTier /\ [][CallTier]_vars

\* ---------------------------------------------------------------- SpecRec
\* generate_recommendations applied to what a route passes it: a tier, a
\* region with its AQI and its hospitals, and four floats
RecRegions == {STR_Surat, STR_Delhi, STR_Nowhereville, Null}
RecCounts == {0 - 10, 0, 25, 50}
RecPopulations == {0 - 10, 0, 5, 30}

InitRec ==
  /\ modelExists = TRUE
  /\ store = <<>>
  /\ resp = NoResp
  /\ inflight = <<>>
  /\ committed = <<>>
  /\ args \in [fn : {"generate_recommendations"},
               risk_level : {"Low", "Medium", "High"},
               region : RecRegions,
               fever_cases : RecCounts, cough_cases : RecCounts,
               diarrhea_cases : RecCounts, region_population : RecPopulations]
  /\ ret = NoResult

CallRec ==
  /\ args.fn = "generate_recommendations"
  /\ ~ret.done
  /\ ret' = [done |-> TRUE,
             suggestions |->
               generate_recommendations(
                 args.risk_level, args.region,
                 [fever_cases |-> args.fever_cases,
                  cough_cases |-> args.cough_cases,
                  diarrhea_cases |-> args.diarrhea_cases,
                  region_population |-> args.region_population],
                 get_region_aqi(args.region)[1], get_region_aqi(args.region)[2],
                 Len(get_hospitals_for_region(args.region)))]
  /\ UNCHANGED <<modelExists, store, resp, inflight, committed, args>>

SpecRec == InitRec /\ [][CallRec]_vars

\* ---------------------------------------------------------------- SpecAgg
\* the dashboard over tables that many assessments have filled: for each
\* region text of AggRegions, in turn, user 1 has had so many Low, Medium
\* and High assessments; user 2 has had one or none before them
AggRegions == <<STR_Surat, STR_Pune, STR_empty, Null>>

AggCounts ==
  { [Low |-> 0, Medium |-> 0, High |-> 0],
    [Low |-> 1, Medium |-> 0, High |-> 0],
    [Low |-> 0, Medium |-> 1, High |-> 1],
    [Low |-> 0, Medium |-> 0, High |-> 2],
    [Low |-> 33, Medium |-> 0, High |-> 1],
    [Low |-> 34, Medium |-> 0, High |-> 1] }

\* an oracle answer of each tier
AggAnswer(tier) ==
  CASE tier = "Low" -> 0 [] tier = "Medium" -> NEstimators \div 2 [] tier = "High" -> NEstimators

AggFeatures ==
  [fever_cases |-> 500, cough_cases |-> 100, diarrhea_cases |-> 50,
   region_population |-> 100000]

\* n assessments of one user, region and tier, committed one after another:
\* what n calls of db_insert with the same row append
AddAssessments(rows, user, region, tier, n) ==
  IF n = 0 THEN rows
  ELSE LET row == prediction_row(user, region, AggFeatures, AggAnswer(tier))
       IN  rows \o [i \in 1..n |-> row @@ [id |-> Len(rows) + i]]

RECURSIVE AggStoreFrom(_, _, _)
AggStoreFrom(rows, counts, i) ==
  IF i > Len(AggRegions) THEN rows
  ELSE AggStoreFrom(
         AddAssessments(
           AddAssessments(
             AddAssessments(rows, 1, AggRegions[i], "Low", counts[i].Low),
             1, AggRegions[i], "Medium", counts[i].Medium),
           1, AggRegions[i], "High", counts[i].High),
         counts, i + 1)

AggStore(others, counts) ==
  AggStoreFrom(AddAssessments(<<>>, 2, STR_Surat, "High", others), counts, 1)

InitAgg ==
  /\ modelExists = TRUE
  /\ \E others \in {0, 1}, counts \in [1..Len(AggRegions) -> AggCounts] :
       /\ store = AggStore(others, counts)
       /\ committed = [i \in 1..Len(store) |-> store[i].user_id]
  /\ resp = NoResp
  /\ inflight = <<>>
  /\ args = NoCall
  /\ ret = NoResult

SpecAgg == InitAgg /\ [][Dashboard]_vars

\* ---------------------------------------------------------------- claims
AssessRoutes == {"api_predict", "predict"}

IsNum(v) == v # Missing /\ v # Null /\ v[1] = "num"

\* region_population is a number that is not positive, or a count is a
\* negative number
InvalidObservation(d) ==
  \/ IsNum(d.region_population) /\ d.region_population[2] <= 0
  \/ \E f \in {"fever_cases", "cough_cases", "diarrhea_cases"} :
       IsNum(d[f]) /\ d[f][2] < 0

\* C1: with the model loaded, an assessment request whose region_population
\* is not positive or one of whose counts is negative is answered with the
\* input-validation error and commits no row.
C1_InvalidObservationRejected ==
  (resp.route \in AssessRoutes /\ resp.kind # "model_unavailable"
     /\ InvalidObservation(resp.data))
  => (resp.kind = "validation_error" /\ resp.status = 400 /\ resp.row = NoRow)

\* C2: while the model file is absent every request to predict or
\* api_predict, whatever its body, is answered 500 model_unavailable, which
\* is neither the status nor the kind of a validation error, and the store
\* is left as it was.
C2_ModelUnavailable ==
  [][ (~modelExists /\ ~modelExists' /\ resp'.route \in AssessRoutes \cup {"predict_get"})
      => (resp'.kind = "model_unavailable" /\ resp'.status = 500
          /\ resp'.status # 400 /\ resp'.kind # "validation_error"
          /\ resp'.row = NoRow /\ store' = store) ]_vars

\* a request that would also fail validation was answered model_unavailable
C2_Witness ==
  /\ ~modelExists
  /\ resp.route = "api_predict"
  /\ resp.kind = "model_unavailable"
  /\ ParseError(resp.data) \in {"KeyError", "ValueError"}

\* C3: every step leaves the rows already stored as they are and in place;
\* it appends one row, the row of the response, exactly when it is an
\* assessment that ran to its end, and no row otherwise.
C3_AppendOnly ==
  [][ /\ Len(store') >= Len(store)
      /\ Len(store') <= Len(store) + 1
      /\ SubSeq(store', 1, Len(store)) = store
      /\ (Len(store') = Len(store) + 1) <=> (modelExists /\ resp'.kind = "ok")
      /\ (Len(store') = Len(store) + 1) =>
           store'[Len(store')] = resp'.row @@ [id |-> Len(store')] ]_vars

\* two rows are stored and the request after them failed
C3_Witness ==
  /\ Len(store) = MaxStore
  /\ resp.route \in AssessRoutes
  /\ resp.kind \in {"validation_error", "server_error"}

\* the tiers in their order
TierRank(t) == CASE t = "Low" -> 1 [] t = "Medium" -> 2 [] t = "High" -> 3

\* the tier the boundaries 0.30 and 0.70 give the probability k / NEstimators
TierByBoundaries(k) ==
  IF 100 * k < 30 * NEstimators THEN "Low"
  ELSE IF 100 * k >= 70 * NEstimators THEN "High"
  ELSE "Medium"

\* C4: compute_risk_level gives every probability of [0, 1] one of the three
\* tiers, Low below 0.30, Medium from 0.30 to below 0.70 and High from 0.70,
\* and the greater of two probabilities never the lower tier.
C4_TierBoundariesMonotone ==
  ret.done =>
    /\ ret.t1 \in {"Low", "Medium", "High"}
    /\ ret.t1 = TierByBoundaries(args.p1)
    /\ ret.t2 = TierByBoundaries(args.p2)
    /\ args.p1 >= args.p2 => TierRank(ret.t1) >= TierRank(ret.t2)

\* the two boundaries themselves: 0.30 is Medium and 0.70 is High
C4_Witness ==
  /\ ret.done
  /\ 10 * args.p2 = 3 * NEstimators /\ ret.t2 = "Medium"
  /\ 10 * args.p1 = 7 * NEstimators /\ ret.t1 = "High"

TierIds == {"alert_authorities", "escalate_testing", "enhanced_surveillance",
            "review_hospital_readiness", "routine_surveillance"}
SymptomIds == {"fever_clusters", "respiratory_hygiene", "water_food_safety"}
AqiIds == {"aqi_masks_outdoors", "aqi_public_advisory", "aqi_maintain_controls"}
FacilityIds == {"no_mapped_hospitals", "limited_hospital_coverage",
                "coordinate_with_hospitals"}
DataIds == {"standardize_reporting"}

StageOf(item) ==
  CASE item.id \in TierIds -> "tier"
    [] item.id \in SymptomIds -> "symptom"
    [] item.id \in AqiIds -> "aqi"
    [] item.id \in FacilityIds -> "facility"
    [] item.id \in DataIds -> "data"

Stages(suggestions) == [i \in 1..Len(suggestions) |-> StageOf(suggestions[i])]

\* C6: the list has 5 or 6 items, in the order tier, symptom, air quality,
\* facilities, data quality; the tier stage gives 2 items for High and for
\* Medium and 1 for Low, every other stage 1.
C6_StagesInOrder ==
  ret.done /\ args.fn = "generate_recommendations" =>
    /\ Len(ret.suggestions) \in {5, 6}
    /\ Stages(ret.suggestions) =
         IF args.risk_level \in {"High", "Medium"}
         THEN <<"tier", "tier", "symptom", "aqi", "facility", "data">>
         ELSE <<"tier", "symptom", "aqi", "facility", "data">>

\* a Medium tier with its two items
C6_Witness ==
  /\ ret.done /\ args.fn = "generate_recommendations"
  /\ args.risk_level = "Medium"
  /\ Len(ret.suggestions) = 6
  /\ ret.suggestions[2].id = "review_hospital_readiness"

\* count / max(population, 1) is at least as great for x as for y
RateGE(x, y, population) ==
  LET pop == IF population > 10 THEN population ELSE 10
  IN  x * 10000 * pop >= y * 10000 * pop

SymptomItems(suggestions) ==
  { i \in 1..Len(suggestions) : suggestions[i].id \in SymptomIds }

\* C7: one symptom item is given, that of the symptom with the greatest
\* rate per 10000, the first of Fever, Cough, Diarrhea among equal rates;
\* the diarrhea item only when its rate exceeds both others.
C7_DominantSymptom ==
  ret.done /\ args.fn = "generate_recommendations" =>
    LET f == args.fever_cases
        c == args.cough_cases
        d == args.diarrhea_cases
        pop == args.region_population
        dominant ==
          IF RateGE(f, c, pop) /\ RateGE(f, d, pop) THEN "fever_clusters"
          ELSE IF RateGE(c, d, pop) THEN "respiratory_hygiene"
          ELSE "water_food_safety"
    IN  /\ Cardinality(SymptomItems(ret.suggestions)) = 1
        /\ \A i \in SymptomItems(ret.suggestions) :
             /\ ret.suggestions[i].id = dominant
             /\ ret.suggestions[i].id = "water_food_safety" =>
                  ~RateGE(f, d, pop) /\ ~RateGE(c, d, pop)

\* cough and diarrhea share the greatest rate: the cough item is given
C7_Witness ==
  /\ ret.done /\ args.fn = "generate_recommendations"
  /\ args.cough_cases = args.diarrhea_cases
  /\ args.fever_cases < args.cough_cases
  /\ \E i \in 1..Len(ret.suggestions) : ret.suggestions[i].id = "respiratory_hygiene"

\* the ids of the commits made by requests of user u, newest first
OwnIds(log, u) ==
  LET own == SelectSeq([i \in 1..Len(log) |-> <<i, log[i]>>], LAMBDA e : e[2] = u)
  IN  [i \in 1..Len(own) |-> own[Len(own) + 1 - i][1]]

\* C5: in every interleaving, each row stored carries as its one user_id the
\* user of the request that committed it, and the dashboard of user u is
\* computed from the rows committed by u's own requests and no others.
C5_RowsPerUser ==
  [][ /\ Len(store') = Len(committed')
      /\ \A i \in 1..Len(store') :
           store'[i].user_id = committed'[i] /\ store'[i].user_id \in Users
      /\ (resp'.route = "dashboard" /\ UNCHANGED <<store, inflight, modelExists>>)
         => /\ resp'.body.recent_predictions = OwnIds(committed, resp'.user)
            /\ Len(resp'.body.labels) <= Len(OwnIds(committed, resp'.user)) ]_vars

\* both users have committed a row and a dashboard was answered from the one
\* row of its user
C5_Witness ==
  /\ resp.route = "dashboard"
  /\ Len(committed) = 2
  /\ committed[1] # committed[2]
  /\ Len(resp.body.recent_predictions) = 1

\* what a region text maps to when trimmed and lower-cased
SuratTexts == {STR_Surat, STR_Surat_padded}
DelhiTexts == {STR_Delhi}

\* the category the breakpoints give an AQI value
CategoryByBreakpoints(v) ==
  CASE v <= 50 -> "Good"
    [] v > 50 /\ v <= 100 -> "Satisfactory"
    [] v > 100 /\ v <= 200 -> "Moderate"
    [] v > 200 /\ v <= 300 -> "Poor"
    [] v > 300 /\ v <= 400 -> "Very Poor"
    [] v > 400 -> "Severe"

HasItem(suggestions, id) ==
  \E i \in 1..Len(suggestions) : suggestions[i].id = id

DashboardRows == SelectSeq(store, LAMBDA p : p.user_id = resp.user)

Summaries == resp.body.region_summary

\* C9 (as amended): the summaries are in descending order of high_percent,
\* the percentage 100 * high_count / total rounded to one decimal, and among
\* equal high_percent in descending order of total: no summary of lower
\* rounded percentage precedes one of higher rounded percentage.
C9_SortedByRoundedPercent ==
  resp.route = "dashboard" =>
    /\ \A i \in 1..Len(Summaries) :
         LET x == Summaries[i]
         IN  /\ x.total_predictions > 0
             /\ 2 * (1000 * x.high_count - x.high_percent * x.total_predictions)
                  <= x.total_predictions
             /\ 2 * (x.high_percent * x.total_predictions - 1000 * x.high_count)
                  <= x.total_predictions
    /\ \A i, j \in 1..Len(Summaries) :
         i < j =>
           \/ Summaries[i].high_percent > Summaries[j].high_percent
           \/ /\ Summaries[i].high_percent = Summaries[j].high_percent
              /\ Summaries[i].total_predictions >= Summaries[j].total_predictions

\* two regions of the same rounded percentage and different ones unrounded,
\* 1 of 35 before 1 of 34
C9_Witness ==
  /\ resp.route = "dashboard"
  /\ \E i, j \in 1..Len(Summaries) :
       /\ i < j
       /\ Summaries[i].high_percent = Summaries[j].high_percent
       /\ Summaries[i].total_predictions > Summaries[j].total_predictions
       /\ Summaries[i].high_count * Summaries[j].total_predictions
            # Summaries[j].high_count * Summaries[i].total_predictions

\* C9 (as claimed): the summaries are in descending order of
\* 100 * high_count / total and among equal percentages in descending
\* order of total.
C9_SortedByExactPercent ==
  resp.route = "dashboard" =>
    \A i, j \in 1..Len(Summaries) :
      i < j =>
        LET hi == Summaries[i].high_count * Summaries[j].total_predictions
            hj == Summaries[j].high_count * Summaries[i].total_predictions
        IN  \/ hi > hj
            \/ hi = hj /\ Summaries[i].total_predictions
                            >= Summaries[j].total_predictions

\* the label a stored region is counted under
LabelByClaim(region) ==
  IF region = Null \/ region = <<>> THEN STR_Unknown ELSE region

RECURSIVE SumTotals(_, _)
SumTotals(xs, i) ==
  IF i > Len(xs) THEN 0 ELSE xs[i].total_predictions + SumTotals(xs, i + 1)

\* C10: the dashboard gives one summary for each distinct label of the
\* user's rows, a null or empty region being labelled Unknown; the totals
\* add up to the number of rows; in each summary 0 <= high_count <= total,
\* total is the sum of the three tier counts of its label, and high_percent
\* is 0 when high_count is 0; no rows give no summaries.
C10_SummaryPerLabel ==
  resp.route = "dashboard" =>
    LET labels == { LabelByClaim(DashboardRows[i].region) : i \in 1..Len(DashboardRows) }
    IN  /\ Len(Summaries) = Cardinality(labels)
        /\ { Summaries[i].region : i \in 1..Len(Summaries) } = labels
        /\ SumTotals(Summaries, 1) = Len(DashboardRows)
        /\ \A i \in 1..Len(Summaries) :
             /\ 0 <= Summaries[i].high_count
             /\ Summaries[i].high_count <= Summaries[i].total_predictions
             /\ Summaries[i].high_count = 0 => Summaries[i].high_percent = 0
             /\ \E j \in 1..Len(resp.body.labels) :
                  /\ resp.body.labels[j] = Summaries[i].region
                  /\ Summaries[i].total_predictions =
                       resp.body.low_counts[j] + resp.body.medium_counts[j]
                         + resp.body.high_counts[j]
                  /\ Summaries[i].high_count = resp.body.high_counts[j]
        /\ DashboardRows = <<>> => Summaries = <<>>

\* rows with a null and rows with an empty region are counted together, next
\* to a region without a High row
C10_Witness ==
  /\ resp.route = "dashboard"
  /\ \E i, j \in 1..Len(DashboardRows) :
       DashboardRows[i].region = Null /\ DashboardRows[j].region = <<>>
  /\ \E i \in 1..Len(Summaries) :
       /\ Summaries[i].region = STR_Unknown
       /\ Summaries[i].total_predictions = 36
  /\ \E i \in 1..Len(Summaries) :
       Summaries[i].high_count = 0 /\ Summaries[i].high_percent = 0

\* the tier the boundaries 30 % and 70 % give a stored percentage (hundredths)
TierOfStored(pct) ==
  IF pct < 3000 THEN "Low" ELSE IF pct >= 7000 THEN "High" ELSE "Medium"

\* C11: in every row stored the flag and the tier come from the one oracle
\* probability the stored percentage records: the flag is 1 exactly when the
\* probability is strictly greater than 0.5 (exactly 0.5 gives flag 0 and tier
\* Medium), a High row has flag 1, a Low row has flag 0, and the stored
\* percentage lies in [0, 100]; the answer sent carries the same three values.
C11_FlagMatchesTier ==
  /\ \A i \in 1..Len(store) :
       LET p == store[i] IN
         /\ p.probability >= 0 /\ p.probability <= 10000
         /\ p.prediction \in {0, 1}
         /\ (p.prediction = 1) <=> (p.probability > 5000)
         /\ p.probability = 5000 => (p.prediction = 0 /\ p.risk_level = "Medium")
         /\ p.risk_level = TierOfStored(p.probability)
         /\ p.risk_level = "High" => p.prediction = 1
         /\ p.risk_level = "Low" => p.prediction = 0
  /\ resp.row # NoRow =>
       /\ resp.body.prediction = resp.row.prediction
       /\ resp.body.probability = resp.row.probability
       /\ resp.body.risk_level = resp.row.risk_level

\* a row stored for the oracle probability 0.5 exactly: flag 0, tier Medium
C11_Witness ==
  /\ resp.row # NoRow
  /\ \E i \in 1..Len(store) :
       /\ store[i].probability = 5000
       /\ store[i].prediction = 0
       /\ store[i].risk_level = "Medium"

====
